---- MODULE Spec2Model ----
(***************************************************************************)
(* Toggle (src/src/components/forms/Toggle.tsx) and Pager                  *)
(* (src/unnamed/part_000) as state machines.                               *)
(*                                                                         *)
(* React's scheduling is modelled as React runs it: a handler only QUEUES  *)
(* state updates (setValues, setMaxReached, setSelectedPage); a later      *)
(* render applies the whole queue in order, commits, and runs the effects  *)
(* whose dependencies changed.  The committed state is what every closure  *)
(* of the rendered tree reads (value, type, setFieldValue).                *)
(***************************************************************************)
EXTENDS Integers, Sequences, FiniteSets, TLC

\* ---------------------------------------------------------------- bounds
MaxLen == 2      \* longest `values` list a Group is mounted with
MaxQueue == 4    \* most setValues calls pending before a render
MaxCap == 2      \* largest maxSelections a Group is given
MaxPanes == 3    \* most child panes of a Pager
MaxPagerQueue == 2 \* most setSelectedPage calls pending before a render

\* ------------------------------------------------------------ the tree
\* <Group> <Item name="a"/> <Item name="b"/> <View><Item name="c"/></View> </Group>
\* "a" and "b" are direct children (React.Children.map clones them), "c" is
\* an Item below a wrapper: it reads the GroupContext only.
Direct == {"a", "b"}
Nested == {"c"}
Names == Direct \cup Nested

\* `maxSelections` undefined
NoMax == -1
MaxSelectionsDomain == {NoMax} \cup (0..MaxCap)
Types == {"radio", "checkbox"}
NoActivation == [name |-> "none", value |-> FALSE]
\* the `disabled` props the caller writes on the Items: at most one is disabled
ItemDisabledDomain == {f \in [Names -> BOOLEAN] : Cardinality({n \in Names : f[n]}) <= 1}

VARIABLES
  \* Toggle.Group: props of the last render
  type, maxSelections, disabled,
  \* props of the child Items as the caller wrote them
  itemDisabled, nestedValue,
  \* Toggle.Group: committed React state
  values, maxReached,
  \* state updates queued and not yet rendered
  valuesQueue, maxQueue,
  \* observation: the calls the last step made
  onChangeCalls, pressCalls,
  \* observation: the {name, value} of the last activation since the type
  \* prop last changed (NoActivation before the first)
  lastActivated,
  \* the Group element and what became of its construction
  element, phase,
  \* a Toggle.Item rendered outside any Group
  item,
  \* the ItemContext value a Checkbox / Switch / Radio reads, and the theme
  itemState, themeName,
  \* Pager
  numChildren, selectedPage, pageQueue, pagerProps, pagerCalls, lastPage

groupVars == <<type, maxSelections, disabled, itemDisabled, nestedValue,
               values, maxReached, valuesQueue, maxQueue, onChangeCalls,
               lastActivated>>
pagerVars == <<numChildren, selectedPage, pageQueue, pagerProps, pagerCalls, lastPage>>
constructVars == <<element, phase>>
styleVars == <<itemState, themeName>>
vars == <<groupVars, constructVars, styleVars, pressCalls, item, pagerVars>>

\* ------------------------------------------------------------- helpers
Range(s) == {s[i] : i \in 1..Len(s)}
Includes(s, x) == x \in Range(s)
SeqsUpTo(S, n) == UNION {[1..k -> S] : k \in 0..n}
\* Array.prototype.slice(0, n)
Slice0(s, n) == SubSeq(s, 1, IF Len(s) < n THEN Len(s) ELSE n)
\* JavaScript truthiness of `maxSelections` (undefined and 0 are falsy)
Truthy(m) == m # NoMax /\ m # 0

\* ------------------------------------------------------- Toggle.Group
\* useState initialiser of `values`
InitialValues(groupType, initialValues) ==
  IF groupType = "radio" THEN Slice0(initialValues, 1) ELSE initialValues

\* the updater passed to setValues in checkbox mode
CheckboxUpdateKeep(s, name, value) ==
  IF value THEN Append(s, name) ELSE SelectSeq(s, LAMBDA v : v # name)
CheckboxUpdate(s, name, value) ==
  LET state == SelectSeq(s, LAMBDA v : v # name)
  IN  IF value THEN Append(state, name) ELSE state

\* the value passed to setValues in radio mode
RadioUpdate(name) == <<name>>

\* setFieldValue as closed over the rendered `type`: the update it queues
SetFieldValueNoRadio(groupType, name, value) ==
  [kind |-> "updater", name |-> name, value |-> value]
SetFieldValue(groupType, name, value) ==
  IF groupType = "checkbox"
    THEN [kind |-> "updater", name |-> name, value |-> value]
    ELSE [kind |-> "value", name |-> name, value |-> TRUE]

\* React applying one queued setValues to the state
ApplyUpdate(s, u) ==
  IF u.kind = "updater" THEN CheckboxUpdate(s, u.name, u.value)
                        ELSE RadioUpdate(u.name)

\* React applying the queued setValues calls in the order they were made
ApplyQueueLast(s, q) == IF q = <<>> THEN s ELSE ApplyUpdate(s, q[Len(q)])
RECURSIVE ApplyQueue(_, _)
ApplyQueue(s, q) ==
  IF q = <<>> THEN s ELSE ApplyQueue(ApplyUpdate(s, Head(q)), Tail(q))

\* the maxReached effect: the setMaxReached calls it makes
MaxReachedEffect(groupType, len, max, reached) ==
  IF groupType = "checkbox"
    THEN IF Truthy(max) /\ len >= max /\ reached = FALSE THEN <<TRUE>>
         ELSE IF Truthy(max) /\ len < max /\ reached = TRUE THEN <<FALSE>>
         ELSE <<>>
    ELSE <<>>

\* the `disabled` prop the Group injects into a direct child
IsDisabledNoCap(groupDisabled, childDisabled, reached, isSelected) ==
  groupDisabled \/ childDisabled
IsDisabled(groupDisabled, childDisabled, reached, isSelected) ==
  IF reached /\ ~isSelected THEN TRUE ELSE groupDisabled \/ childDisabled

\* -------------------------------------------------------- Toggle.Item
ItemRole(groupType, itemType) == IF groupType = "radio" THEN "radio" ELSE itemType
ItemSelectedByGroup(selectedValues, name, value) == Includes(selectedValues, name)
ItemSelected(selectedValues, name, value) == Includes(selectedValues, name) \/ value
ItemDisabled(groupDisabled, ownDisabled) == groupDisabled \/ ownDisabled

\* Item.onPress: the calls it makes, in order.  `setter` is what the context's
\* setFieldValue is ("group": the Group's, "noop": the default), `onChange`
\* what the onChange prop is ("group": the Group's setFieldValue, injected by
\* cloneElement, "own": the caller's function, "none": undefined).
OnPressOnce(name, value, setter, onChange) ==
  <<[prop |-> "setFieldValue", to |-> setter, name |-> name, value |-> ~value]>>
OnPress(name, value, setter, onChange) ==
  LET next == ~value
  IN  <<[prop |-> "setFieldValue", to |-> setter, name |-> name, value |-> next]>>
      \o (IF onChange = "none" THEN <<>>
          ELSE <<[prop |-> "onChange", to |-> onChange, name |-> name, value |-> next]>>)

\* the default GroupContext: what an Item outside any Group reads
DefaultContextGroup == [type |-> "checkbox", values |-> <<>>, disabled |-> FALSE,
                        setFieldValue |-> "group"]
DefaultContext == [type |-> "checkbox", values |-> <<>>, disabled |-> FALSE,
                   setFieldValue |-> "noop"]

\* the setValues calls a sequence of onPress calls queues on the Group
RECURSIVE Queued(_, _)
Queued(groupType, calls) ==
  IF calls = <<>> THEN <<>>
  ELSE (IF Head(calls).to = "group"
          THEN <<SetFieldValue(groupType, Head(calls).name, Head(calls).value)>>
          ELSE <<>>) \o Queued(groupType, Tail(calls))


\* the Group's render: React applies the queued updates, the component body
\* runs with the props (groupType, max, groupDisabled), the tree is committed
\* and the two effects run, each iff one of its dependencies changed.
\* onChangeChanged: the caller passed an onChange of a new identity.
Render(groupType, max, groupDisabled, onChangeChanged) ==
  LET newValues == ApplyQueue(values, valuesQueue)
      newReached == IF maxQueue = <<>> THEN maxReached ELSE maxQueue[Len(maxQueue)]
      \* every applied setValues yields a fresh array
      valuesReplaced == valuesQueue # <<>>
      maxDepsChanged == \/ groupType # type
                        \/ Len(newValues) # Len(values)
                        \/ max # maxSelections
                        \/ newReached # maxReached
  IN  /\ type' = groupType
      /\ maxSelections' = max
      /\ disabled' = groupDisabled
      /\ values' = newValues
      /\ maxReached' = newReached
      /\ valuesQueue' = <<>>
      /\ onChangeCalls' = IF valuesReplaced \/ onChangeChanged THEN <<newValues>> ELSE <<>>
      /\ maxQueue' = IF maxDepsChanged
                       THEN MaxReachedEffect(groupType, Len(newValues), max, newReached)
                       ELSE <<>>
      /\ lastActivated' = IF groupType # type THEN NoActivation ELSE lastActivated
      /\ pressCalls' = <<>>
      /\ UNCHANGED <<itemDisabled, nestedValue>>

\* the mount of <Group type values maxSelections disabled onChange>
\* (the state and the calls of the first render and of its effects)
MountState(groupType, initialValues, max, groupDisabled) ==
  LET first == InitialValues(groupType, initialValues)
  IN  [values |-> first,
       maxReached |-> FALSE,
       onChangeCalls |-> <<first>>,
       maxQueue |-> MaxReachedEffect(groupType, Len(first), max, FALSE)]
Mount(groupType, initialValues, max, groupDisabled) ==
  LET m == MountState(groupType, initialValues, max, groupDisabled)
  IN  /\ type = groupType
      /\ maxSelections = max
      /\ disabled = groupDisabled
      /\ values = m.values
      /\ maxReached = m.maxReached
      /\ valuesQueue = <<>>
      /\ onChangeCalls = m.onChangeCalls
      /\ maxQueue = m.maxQueue
      /\ lastActivated = NoActivation
      /\ pressCalls = <<>>

\* a <Group> element: `values` is <<>> when the prop is absent (undefined),
\* <<list>> when a list is passed
ElementDomain == [values : {<<>>} \cup {<<l>> : l \in SeqsUpTo(Names, MaxLen)},
                  type : Types, maxSelections : MaxSelectionsDomain,
                  disabled : BOOLEAN]
\* the element of a Group that is already mounted
MountedElement == [values |-> <<<<>>>>, type |-> "checkbox", maxSelections |-> NoMax,
             disabled |-> FALSE]
\* !initialValues: only an absent prop is falsy, an empty array is not
NoValuesOrEmpty(valuesProp) == valuesProp = <<>> \/ valuesProp[1] = <<>>
NoValues(valuesProp) == valuesProp = <<>>

\* nothing of the Group exists: no state, no child rendered, no call made
Unmounted ==
  /\ values = <<>>
  /\ maxReached = FALSE
  /\ valuesQueue = <<>>
  /\ maxQueue = <<>>
  /\ onChangeCalls = <<>>
  /\ lastActivated = NoActivation
  /\ pressCalls = <<>>

\* React calls Group(element) for the first time: it throws, or mounts
Construct ==
  /\ phase = "unmounted"
  /\ IF NoValues(element.values)
       THEN /\ phase' = "error"
            /\ UNCHANGED <<groupVars, pressCalls>>
       ELSE LET m == MountState(element.type, element.values[1],
                                element.maxSelections, element.disabled)
            IN  /\ phase' = "mounted"
                /\ values' = m.values
                /\ maxReached' = m.maxReached
                /\ onChangeCalls' = m.onChangeCalls
                /\ maxQueue' = m.maxQueue
                /\ UNCHANGED <<type, maxSelections, disabled, valuesQueue,
                               lastActivated, pressCalls, itemDisabled, nestedValue>>
  /\ UNCHANGED <<element, styleVars, item, pagerVars>>

\* a render React schedules itself because state updates are pending
Commit ==
  /\ valuesQueue # <<>> \/ maxQueue # <<>>
  /\ Render(type, maxSelections, disabled, FALSE)
  /\ UNCHANGED <<constructVars, styleVars, item, pagerVars>>

\* the parent renders the Group again, with any props
Rerender ==
  /\ \E groupType \in Types, max \in MaxSelectionsDomain, groupDisabled \in BOOLEAN,
        onChangeChanged \in BOOLEAN :
       Render(groupType, max, groupDisabled, onChangeChanged)
  /\ UNCHANGED <<constructVars, styleVars, item, pagerVars>>

\* the props the Group's last render cloned into direct child n
ChildValue(n) == Includes(values, n)
ChildDisabled(n) == IsDisabled(disabled, itemDisabled[n], maxReached, ChildValue(n))

\* what an onPress does to the Group and to the observation
Activate(n, calls) ==
  /\ Len(valuesQueue) + Len(Queued(type, calls)) <= MaxQueue
  /\ valuesQueue' = valuesQueue \o Queued(type, calls)
  /\ pressCalls' = calls
  /\ onChangeCalls' = <<>>
  /\ UNCHANGED <<type, maxSelections, disabled, itemDisabled, nestedValue,
                 values, maxReached, maxQueue>>

\* a press on direct child n: the Pressable is not disabled
PressDirect(n) ==
  /\ ~ItemDisabled(disabled, ChildDisabled(n))
  /\ Activate(n, OnPress(n, ChildValue(n), "group", "group"))
  /\ lastActivated' = [name |-> n, value |-> ~ChildValue(n)]
  /\ UNCHANGED <<constructVars, styleVars, item, pagerVars>>

\* a press on the Item below the wrapper: its props are the caller's own
PressNested(n) ==
  /\ ~ItemDisabled(disabled, itemDisabled[n])
  /\ Activate(n, OnPress(n, nestedValue, "group", "own"))
  /\ lastActivated' = [name |-> n, value |-> ~nestedValue]
  /\ UNCHANGED <<constructVars, styleVars, item, pagerVars>>

\* --------------------------------------- a Toggle.Item outside any Group
ItemProps == [name : Names, value : BOOLEAN, disabled : BOOLEAN,
              type : Types, hasOnChange : BOOLEAN, hasError : BOOLEAN]
NoItem == [name |-> "a", value |-> FALSE, disabled |-> FALSE,
           type |-> "checkbox", hasOnChange |-> FALSE, hasError |-> FALSE]

\* what the Item renders: aria-checked, disabled, role
StandaloneSelected == ItemSelected(DefaultContext.values, item.name, item.value)
StandaloneDisabled == ItemDisabled(DefaultContext.disabled, item.disabled)
StandaloneRole == ItemRole(DefaultContext.type, item.type)

ItemPress ==
  /\ ~StandaloneDisabled
  /\ Activate(item.name,
              OnPress(item.name, item.value, DefaultContext.setFieldValue,
                      IF item.hasOnChange THEN "own" ELSE "none"))
  /\ UNCHANGED <<constructVars, styleVars, item, lastActivated, pagerVars>>

\* the parent renders the Item again, with any props
ItemRerender ==
  /\ item' \in ItemProps
  /\ pressCalls' = <<>>
  /\ UNCHANGED <<groupVars, constructVars, styleVars, pagerVars>>

\* ------------------ a Toggle.Item below a Group, reading its context
\* what the Item renders from the GroupContext and its own props
ContextView ==
  [selected |-> ItemSelected(values, item.name, item.value),
   disabled |-> ItemDisabled(disabled, item.disabled),
   role |-> ItemRole(type, item.type)]

\* a press on it, once the Group has rendered the press before
ContextPress ==
  /\ valuesQueue = <<>>
  /\ ~ContextView.disabled
  /\ Activate(item.name,
              OnPress(item.name, item.value, "group",
                      IF item.hasOnChange THEN "own" ELSE "none"))
  /\ lastActivated' = [name |-> item.name, value |-> ~item.value]
  /\ UNCHANGED <<constructVars, styleVars, item, pagerVars>>

\* ------------------------------ Checkbox / Switch / Radio and their styles
\* the default ItemContext (its name is not read by the styles)
DefaultItemState == [selected |-> FALSE, disabled |-> FALSE, hasError |-> FALSE,
                     hovered |-> FALSE, pressed |-> FALSE, focused |-> FALSE]
ItemStates == [selected : BOOLEAN, disabled : BOOLEAN, hasError : BOOLEAN,
               hovered : BOOLEAN, pressed : BOOLEAN, focused : BOOLEAN]
\* t.name: 'light', or a theme that is not
Themes == {"light", "dark"}

\* the style objects createSharedToggleStyles pushes, as palette tokens
SelectedStyle(t) ==
  [backgroundColor |-> IF t = "light" THEN "primary_25" ELSE "primary_900",
   borderColor |-> "primary_500"]
SelectedHoverStyle(t) ==
  [backgroundColor |-> IF t = "light" THEN "primary_100" ELSE "primary_800",
   borderColor |-> IF t = "light" THEN "primary_600" ELSE "primary_400"]
UnselectedHoverStyle(t) ==
  [backgroundColor |-> "contrast_50", borderColor |-> "contrast_500"]
ErrorStyle(t) ==
  [backgroundColor |-> IF t = "light" THEN "negative_25" ELSE "negative_900",
   borderColor |-> IF t = "light" THEN "negative_300" ELSE "negative_800"]
ErrorHoverStyle(t) ==
  [backgroundColor |-> IF t = "light" THEN "negative_25" ELSE "negative_900",
   borderColor |-> "negative_500"]
DisabledStyle(t) ==
  [backgroundColor |-> "contrast_200", borderColor |-> "contrast_300"]

\* createSharedToggleStyles: the three arrays it returns
CreateSharedToggleStylesDisabledFirst(t, hovered, focused, selected, isDisabled, hasError) ==
  [baseStyles |->
     (IF isDisabled THEN <<DisabledStyle(t)>> ELSE <<>>)
     \o (IF selected THEN <<SelectedStyle(t)>> ELSE <<>>)
     \o (IF hasError THEN <<ErrorStyle(t)>> ELSE <<>>),
   baseHoverStyles |->
     (IF hovered \/ focused
        THEN <<IF selected THEN SelectedHoverStyle(t) ELSE UnselectedHoverStyle(t)>>
        ELSE <<>>)
     \o (IF hasError /\ (hovered \/ focused) THEN <<ErrorHoverStyle(t)>> ELSE <<>>),
   indicatorStyles |-> <<>>]
CreateSharedToggleStyles(t, hovered, focused, selected, isDisabled, hasError) ==
  [baseStyles |->
     (IF selected THEN <<SelectedStyle(t)>> ELSE <<>>)
     \o (IF hasError THEN <<ErrorStyle(t)>> ELSE <<>>)
     \o (IF isDisabled THEN <<DisabledStyle(t)>> ELSE <<>>),
   baseHoverStyles |->
     (IF selected
        THEN (IF hovered \/ focused THEN <<SelectedHoverStyle(t)>> ELSE <<>>)
        ELSE (IF hovered \/ focused THEN <<UnselectedHoverStyle(t)>> ELSE <<>>))
     \o (IF hasError
           THEN (IF hovered \/ focused THEN <<ErrorHoverStyle(t)>> ELSE <<>>)
           ELSE <<>>),
   indicatorStyles |-> <<>>]

\* Checkbox(): the styles it computes from the ItemContext and the theme
CheckboxStyles ==
  CreateSharedToggleStyles(themeName, itemState.hovered, itemState.focused,
                           itemState.selected, itemState.disabled, itemState.hasError)

\* useInteractionState: onIn sets the flag, onOut clears it
InteractionFlags == {"hovered", "pressed", "focused"}
OnIn(flag) ==
  /\ itemState' = [itemState EXCEPT ![flag] = TRUE]
  /\ UNCHANGED <<themeName, groupVars, constructVars, pressCalls, item, pagerVars>>
OnOut(flag) ==
  /\ itemState' = [itemState EXCEPT ![flag] = FALSE]
  /\ UNCHANGED <<themeName, groupVars, constructVars, pressCalls, item, pagerVars>>

\* the Item renders with a new selected / disabled / hasError
ItemStateRender ==
  /\ \E sel, dis, err \in BOOLEAN :
       itemState' = [itemState EXCEPT !.selected = sel, !.disabled = dis,
                                      !.hasError = err]
  /\ UNCHANGED <<themeName, groupVars, constructVars, pressCalls, item, pagerVars>>

\* useTheme() returns another theme
ThemeChange ==
  /\ themeName' \in Themes \ {themeName}
  /\ UNCHANGED <<itemState, groupVars, constructVars, pressCalls, item, pagerVars>>

\* ---------------------------------------------------------------- Pager
PageIndexes == -1..MaxPanes
PagerPropsDomain == [tabBarPosition : {"top", "bottom"},
                     hasOnPageSelected : BOOLEAN, hasOnPageSelecting : BOOLEAN]
NoPager == [tabBarPosition |-> "top", hasOnPageSelected |-> FALSE,
            hasOnPageSelecting |-> FALSE]

\* the child panes: every child is mapped to a View, whatever is selected
Panes == 0..(numChildren - 1)
\* the View child i is wrapped in when `page` is selected: always rendered,
\* styled s.flex1 or {display: 'none'}
PaneViewUnmount(page, i) ==
  [mounted |-> page = i, style |-> IF page = i THEN "flex1" ELSE "none"]
PaneView(page, i) ==
  [mounted |-> TRUE, style |-> IF page = i THEN "flex1" ELSE "none"]
Mounted == {i \in Panes : PaneView(selectedPage, i).mounted}
Visible == {i \in Mounted : PaneView(selectedPage, i).style = "flex1"}
\* the props renderTabBar is called with (once: position is top or bottom)
TabBarSelectedPage == selectedPage

\* onTabBarSelect's callback calls, in order
TabBarCallsSwapped(index, props) ==
  (IF props.hasOnPageSelecting THEN <<[fn |-> "onPageSelecting", index |-> index]>> ELSE <<>>)
  \o (IF props.hasOnPageSelected THEN <<[fn |-> "onPageSelected", index |-> index]>> ELSE <<>>)
TabBarCalls(index, props) ==
  (IF props.hasOnPageSelected THEN <<[fn |-> "onPageSelected", index |-> index]>> ELSE <<>>)
  \o (IF props.hasOnPageSelecting THEN <<[fn |-> "onPageSelecting", index |-> index]>> ELSE <<>>)

\* ref.setPage(index)
SetPageNotifies(index) ==
  /\ Len(pageQueue) < MaxPagerQueue
  /\ pageQueue' = Append(pageQueue, index)
  /\ pagerCalls' = TabBarCalls(index, pagerProps)
  /\ lastPage' = [op |-> "setPage", index |-> index]
  /\ UNCHANGED <<numChildren, selectedPage, pagerProps, groupVars, constructVars, styleVars, pressCalls, item>>
SetPage(index) ==
  /\ Len(pageQueue) < MaxPagerQueue
  /\ pageQueue' = Append(pageQueue, index)
  /\ pagerCalls' = <<>>
  /\ lastPage' = [op |-> "setPage", index |-> index]
  /\ UNCHANGED <<numChildren, selectedPage, pagerProps, groupVars, constructVars, styleVars, pressCalls, item>>

\* onTabBarSelect(index), called by the tab bar
OnTabBarSelect(index) ==
  /\ Len(pageQueue) < MaxPagerQueue
  /\ pageQueue' = Append(pageQueue, index)
  /\ pagerCalls' = TabBarCalls(index, pagerProps)
  /\ lastPage' = [op |-> "onSelect", index |-> index]
  /\ UNCHANGED <<numChildren, selectedPage, pagerProps, groupVars, constructVars, styleVars, pressCalls, item>>

\* React renders the Pager: the queued setSelectedPage calls apply in order
PagerRender ==
  /\ pageQueue # <<>>
  /\ selectedPage' = pageQueue[Len(pageQueue)]
  /\ pageQueue' = <<>>
  /\ pagerCalls' = <<>>
  /\ UNCHANGED <<numChildren, pagerProps, lastPage, groupVars, constructVars, styleVars, pressCalls, item>>

PagerMount(n, initialPage, props) ==
  /\ numChildren = n
  /\ selectedPage = initialPage
  /\ pagerProps = props
  /\ pageQueue = <<>>
  /\ pagerCalls = <<>>
  /\ lastPage = [op |-> "none", index |-> initialPage]

\* ------------------------------------------------------ specifications
\* a Group with its three Items
Init ==
  /\ \E groupType \in Types, initialValues \in SeqsUpTo(Names, MaxLen),
        max \in MaxSelectionsDomain, groupDisabled \in BOOLEAN :
       Mount(groupType, initialValues, max, groupDisabled)
  /\ itemDisabled \in ItemDisabledDomain
  /\ nestedValue \in BOOLEAN
  /\ element = MountedElement /\ phase = "mounted"
  /\ item = NoItem
  /\ itemState = DefaultItemState /\ themeName = "light"
  /\ PagerMount(0, 0, NoPager)

Next ==
  \/ \E n \in Direct : PressDirect(n)
  \/ \E n \in Nested : PressNested(n)
  \/ Commit
  \/ Rerender

Spec == Init /\ [][Next]_vars

\* an Item outside any Group, beside a mounted Group it is no descendant of
ItemInit ==
  /\ \E groupType \in Types, initialValues \in SeqsUpTo(Names, MaxLen) :
       Mount(groupType, initialValues, NoMax, FALSE)
  /\ itemDisabled = [n \in Names |-> FALSE]
  /\ nestedValue = FALSE
  /\ element = MountedElement /\ phase = "mounted"
  /\ item \in ItemProps
  /\ itemState = DefaultItemState /\ themeName = "light"
  /\ PagerMount(0, 0, NoPager)

ItemNext == ItemPress \/ ItemRerender

ItemSpec == ItemInit /\ [][ItemNext]_vars

\* a Pager
PagerInit ==
  /\ Mount("checkbox", <<>>, NoMax, FALSE)
  /\ itemDisabled = [n \in Names |-> FALSE]
  /\ nestedValue = FALSE
  /\ element = MountedElement /\ phase = "mounted"
  /\ item = NoItem
  /\ itemState = DefaultItemState /\ themeName = "light"
  /\ \E n \in 0..MaxPanes, initialPage \in PageIndexes, props \in PagerPropsDomain :
       PagerMount(n, initialPage, props)

PagerNext ==
  \/ \E index \in PageIndexes : SetPage(index)
  \/ \E index \in PageIndexes : OnTabBarSelect(index)
  \/ PagerRender

PagerSpec == PagerInit /\ [][PagerNext]_vars

\* a Group and, below a wrapper in it, one Item with any props
ContextInit ==
  /\ \E groupType \in Types, initialValues \in SeqsUpTo(Names, MaxLen),
        groupDisabled \in BOOLEAN :
       Mount(groupType, initialValues, NoMax, groupDisabled)
  /\ itemDisabled = [n \in Names |-> FALSE]
  /\ nestedValue = FALSE
  /\ element = MountedElement /\ phase = "mounted"
  /\ item \in ItemProps
  /\ itemState = DefaultItemState /\ themeName = "light"
  /\ PagerMount(0, 0, NoPager)

ContextNext == ContextPress \/ Commit \/ ItemRerender

ContextSpec == ContextInit /\ [][ContextNext]_vars

\* a Checkbox below an Item that has just mounted: no interaction yet
StyleInit ==
  /\ Mount("checkbox", <<>>, NoMax, FALSE)
  /\ itemDisabled = [n \in Names |-> FALSE]
  /\ nestedValue = FALSE
  /\ element = MountedElement /\ phase = "mounted"
  /\ item = NoItem
  /\ itemState \in {st \in ItemStates : ~st.hovered /\ ~st.pressed /\ ~st.focused}
  /\ themeName \in Themes
  /\ PagerMount(0, 0, NoPager)

StyleNext ==
  \/ \E flag \in InteractionFlags : OnIn(flag)
  \/ \E flag \in InteractionFlags : OnOut(flag)
  \/ ItemStateRender
  \/ ThemeChange

StyleSpec == StyleInit /\ [][StyleNext]_vars

\* a Group element, with or without a values prop, about to be constructed
ConstructInit ==
  /\ element \in ElementDomain /\ phase = "unmounted"
  /\ type = element.type
  /\ maxSelections = element.maxSelections
  /\ disabled = element.disabled
  /\ Unmounted
  /\ itemDisabled \in ItemDisabledDomain
  /\ nestedValue \in BOOLEAN
  /\ item = NoItem
  /\ itemState = DefaultItemState /\ themeName = "light"
  /\ PagerMount(0, 0, NoPager)

ConstructNext == Construct

ConstructSpec == ConstructInit /\ [][ConstructNext]_vars


\* ================================================================ claims
\* no state update of the Group is pending: its effects have settled
Settled == valuesQueue = <<>> /\ maxQueue = <<>>
\* s without every occurrence of name
Without(s, name) == SelectSeq(s, LAMBDA v : v # name)
\* number of occurrences of name in s
Count(s, name) == Cardinality({i \in 1..Len(s) : s[i] = name})
\* every entry of the queue is the same update
AllSame(q) == \A i \in 1..Len(q) : q[i] = q[1]

\* C1: in a radio Group, once the activations made so far are rendered, the
\* selection is the one-element list of the name activated last, whether
\* that activation carried true or false.
C1_RadioSelectsLast ==
  (type = "radio" /\ lastActivated # NoActivation /\ valuesQueue = <<>>)
    => (Len(values) <= 1 /\ values = <<lastActivated.name>>)

\* C1 witness: a selected radio item was activated again (value false) and
\* the render left it the only selection.
C1_Witness ==
  /\ type = "radio"
  /\ valuesQueue = <<>>
  /\ lastActivated = [name |-> "a", value |-> FALSE]
  /\ values = <<"a">>

\* the disabled prop the cap rule gives direct child n under a cap of max
CapRule(n, max) ==
  IF Len(values) >= max /\ ~Includes(values, n)
    THEN TRUE
    ELSE disabled \/ itemDisabled[n]

C3_OncePerChange ==
  [][ /\ (values' # values) <=> (onChangeCalls' # <<>>)
      /\ onChangeCalls' # <<>> => onChangeCalls' = <<values'>> ]_vars

\* the update every entry of a queue of identical checkbox updates makes
C4_Expected(s, u) ==
  Without(s, u.name) \o (IF u.value THEN <<u.name>> ELSE <<>>)

\* C4: a render that applies one checkbox update {name, v}, queued once or
\* several times over, turns s into s without name followed by name iff v;
\* the other names keep their membership and order.
C4_CheckboxUpdateRule ==
  [][ (/\ valuesQueue # <<>>
       /\ valuesQueue[1].kind = "updater"
       /\ AllSame(valuesQueue)
       /\ valuesQueue' = <<>>)
      => /\ values' = C4_Expected(values, valuesQueue[1])
         /\ Count(values', valuesQueue[1].name) = (IF valuesQueue[1].value THEN 1 ELSE 0)
         /\ Without(values', valuesQueue[1].name) = Without(values, valuesQueue[1].name) ]_vars

\* C4 witness: {a, false} is queued twice on a selection holding "a" twice
\* and another name.
C4_Witness ==
  /\ type = "checkbox"
  /\ Count(values, "a") = 2 /\ Includes(values, "b")
  /\ valuesQueue = << [kind |-> "updater", name |-> "a", value |-> FALSE],
                      [kind |-> "updater", name |-> "a", value |-> FALSE] >>


\* the callbacks a Pager was given, among onPageSelected then onPageSelecting
C5_Expected(index) ==
  SelectSeq(<< [fn |-> "onPageSelected", index |-> index],
               [fn |-> "onPageSelecting", index |-> index] >>,
            LAMBDA c : IF c.fn = "onPageSelected" THEN pagerProps.hasOnPageSelected
                                                  ELSE pagerProps.hasOnPageSelecting)

\* C5: a tab-bar selection of index i queues i as the selected index and
\* calls onPageSelected(i) then onPageSelecting(i), each once (each when the
\* Pager was given it), also when i is the page already selected; the next
\* render selects the index requested last.
C5_SelectCallsBoth ==
  /\ (lastPage.op = "onSelect" /\ pageQueue # <<>>)
       => (/\ pagerCalls = C5_Expected(lastPage.index)
           /\ pageQueue[Len(pageQueue)] = lastPage.index)
  /\ (lastPage.op # "none" /\ pageQueue = <<>>) => selectedPage = lastPage.index

\* C5 witness: the page already selected was selected again on the tab bar
\* and both callbacks were called with it.
C5_Witness ==
  /\ lastPage = [op |-> "onSelect", index |-> selectedPage]
  /\ pageQueue = <<selectedPage>>
  /\ pagerCalls = << [fn |-> "onPageSelected", index |-> selectedPage],
                     [fn |-> "onPageSelecting", index |-> selectedPage] >>

\* C6: every child pane is mounted, pane k is visible iff k is the selected
\* index: one pane for an index within the children, none outside them; and
\* once rendered, the selected index is the one requested last.
C6_OnePaneVisible ==
  /\ Mounted = 0..(numChildren - 1)
  /\ \A k \in 0..(numChildren - 1) : (k \in Visible) <=> (k = selectedPage)
  /\ Cardinality(Visible) = (IF selectedPage \in 0..(numChildren - 1) THEN 1 ELSE 0)
  /\ (lastPage.op # "none" /\ pageQueue = <<>>) => selectedPage = lastPage.index

\* C6 witness: setPage(2) on a Pager of three panes was rendered: pane 2 is
\* visible, panes 0 and 1 are mounted and hidden.
C6_Witness ==
  /\ numChildren = 3
  /\ lastPage = [op |-> "setPage", index |-> 2]
  /\ pageQueue = <<>>
  /\ Visible = {2} /\ Mounted = {0, 1, 2}

\* C7 as stated: with the effects settled, maxReached is true iff the Group
\* is a checkbox Group with a maxSelections (>= 1) that the size has reached.
C7_FlagTracksCap ==
  Settled => (maxReached <=> (type = "checkbox" /\ maxSelections >= 1
                                /\ Len(values) >= maxSelections))

\* C8 as stated: a radio Group's selection holds at most one name.
C8_RadioAtMostOne == type = "radio" => Len(values) <= 1

\* C9 as stated, for a checkbox Group: an activation of an Item calls the
\* Group's setter and then the Item's onChange prop with the same {name,
\* next}, and the updates it queues, once rendered, remove the item's name
\* if the item was selected (its name in the selection or its value prop
\* true) and add it if it was not.
C9_ActivationToggles ==
  (/\ type = "checkbox"
   /\ pressCalls # <<>>
   /\ valuesQueue = Queued(type, pressCalls))
    => LET c == pressCalls[1]
           wasSelected == ItemSelected(values, c.name,
                            IF c.name \in Nested THEN nestedValue ELSE ChildValue(c.name))
       IN  /\ c.prop = "setFieldValue" /\ c.to = "group"
           /\ Len(pressCalls) = 2
           /\ pressCalls[2].prop = "onChange"
           /\ pressCalls[2].name = c.name /\ pressCalls[2].value = c.value
           /\ Includes(ApplyQueue(values, valuesQueue), c.name) = ~wasSelected

\* C10: an Item outside any Group is selected iff its value prop is true,
\* disabled iff its disabled prop is, has its own type as role; a press
\* calls the default (no-op) setter and then the Item's own onChange, when
\* it has one, once with {name, not value}; no update reaches any Group.
C10_StandaloneItem ==
  /\ StandaloneSelected = item.value
  /\ StandaloneDisabled = item.disabled
  /\ StandaloneRole = item.type
  /\ valuesQueue = <<>>
  /\ pressCalls # <<>> =>
       pressCalls =
         << [prop |-> "setFieldValue", to |-> "noop", name |-> item.name,
             value |-> ~item.value] >>
         \o (IF item.hasOnChange
               THEN << [prop |-> "onChange", to |-> "own", name |-> item.name,
                        value |-> ~item.value] >>
               ELSE <<>>)

\* C10 witness: a selected radio Item with an onChange was pressed.
C10_Witness ==
  /\ item.value /\ item.hasOnChange /\ item.type = "radio"
  /\ Len(pressCalls) = 2
  /\ pressCalls[2] = [prop |-> "onChange", to |-> "own", name |-> item.name,
                      value |-> FALSE]


\* the position of the last update of the queue that names n (0: none does)
C11_LastRequest(q, n) ==
  IF \E i \in 1..Len(q) : q[i].name = n
    THEN CHOOSE i \in 1..Len(q) : q[i].name = n /\ \A j \in (i + 1)..Len(q) : q[j].name # n
    ELSE 0

\* C11: the selection changes only in a render that applies queued setter
\* calls, and that render loses none of them: in checkbox mode a name that
\* was requested is selected iff its last request carried true, a name that
\* was not requested keeps its membership, and the names requested true
\* stand last in the order of their last requests; in radio mode the
\* selection is the name requested last.
C11_NoLostUpdate ==
  [][ /\ values' # values => (valuesQueue # <<>> /\ valuesQueue' = <<>>)
      /\ (valuesQueue # <<>> /\ valuesQueue' = <<>>) =>
           LET q == valuesQueue
               last == q[Len(q)]
           IN  IF last.kind = "value"
                 THEN values' = <<last.name>>
                 ELSE /\ \A n \in Names :
                           Includes(values', n) =
                             (IF C11_LastRequest(q, n) = 0 THEN Includes(values, n)
                              ELSE q[C11_LastRequest(q, n)].value)
                      /\ \A n, k \in Names :
                           (/\ C11_LastRequest(q, n) # 0 /\ C11_LastRequest(q, k) # 0
                            /\ q[C11_LastRequest(q, n)].value /\ q[C11_LastRequest(q, k)].value
                            /\ C11_LastRequest(q, n) < C11_LastRequest(q, k))
                           => \E i, j \in 1..Len(values') :
                                i < j /\ values'[i] = n /\ values'[j] = k
                      /\ \A n \in Names :
                           C11_LastRequest(q, n) = 0 =>
                             \A i \in 1..Len(values') :
                               values'[i] = n => \A j \in 1..Len(values') :
                                 (C11_LastRequest(q, values'[j]) # 0) => i < j ]_vars

\* C11 witness: in checkbox mode "b" then "a" were pressed back to back on a
\* selection holding "c", with no render in between.
C11_Witness ==
  /\ type = "checkbox" /\ values = <<"c">>
  /\ valuesQueue = << [kind |-> "updater", name |-> "b", value |-> TRUE],
                      [kind |-> "updater", name |-> "b", value |-> TRUE],
                      [kind |-> "updater", name |-> "a", value |-> TRUE],
                      [kind |-> "updater", name |-> "a", value |-> TRUE] >>


\* C12: a Group constructed without a values prop throws and leaves nothing
\* behind (no state, no update queued, no child to press, no onChange call);
\* a Group given a list, the empty list included, mounts with it.
C12_MissingValuesThrows ==
  /\ phase = "error" <=> (phase # "unmounted" /\ element.values = <<>>)
  /\ phase = "error" => Unmounted
  /\ phase = "mounted" =>
       /\ element.values # <<>>
       /\ onChangeCalls = <<values>>
       /\ values = (IF type = "radio" THEN Slice0(element.values[1], 1)
                                      ELSE element.values[1])

\* C12 witness: a Group given the empty list was constructed and is mounted.
C12_Witness ==
  phase = "mounted" /\ element.values = << <<>> >> /\ onChangeCalls = << <<>> >>


\* C13: an Item that reads a Group's context is rendered selected iff its
\* name is in the selection or its value prop is true, disabled iff the
\* group or the item is disabled, with role radio in a radio group and its
\* own type otherwise.
C13_EffectiveItemState ==
  /\ ContextView.selected = ((\E i \in 1..Len(values) : values[i] = item.name) \/ item.value)
  /\ ContextView.disabled = (disabled \/ item.disabled)
  /\ ContextView.role = (IF type = "radio" THEN "radio" ELSE item.type)
  /\ pressCalls # <<>> => ~(disabled \/ item.disabled)

\* C13 witness: in a radio group, an enabled Item of type checkbox whose
\* name is not selected but whose value prop is true was pressed.
C13_Witness ==
  /\ type = "radio" /\ item.type = "checkbox"
  /\ item.value /\ ~Includes(values, item.name) /\ values # <<>>
  /\ pressCalls # <<>>
  /\ ContextView = [selected |-> TRUE, disabled |-> FALSE, role |-> "radio"]


\* C14: for every theme and every combination of the five flags, the base
\* layer holds in this order the selected style iff selected, the error
\* style iff hasError and the disabled style iff disabled (so the disabled
\* style is last); the hover layer is non-empty only if hovered or focused;
\* the layers depend on nothing else (not on pressed).
C14_StyleLayers ==
  LET st == CheckboxStyles
      base == st.baseStyles
  IN  /\ base = (IF itemState.selected THEN <<SelectedStyle(themeName)>> ELSE <<>>)
                \o (IF itemState.hasError THEN <<ErrorStyle(themeName)>> ELSE <<>>)
                \o (IF itemState.disabled THEN <<DisabledStyle(themeName)>> ELSE <<>>)
      /\ itemState.disabled => base[Len(base)] = DisabledStyle(themeName)
      /\ st.baseHoverStyles # <<>> => (itemState.hovered \/ itemState.focused)
      /\ \A other \in ItemStates :
           (/\ other.selected = itemState.selected /\ other.disabled = itemState.disabled
            /\ other.hasError = itemState.hasError /\ other.hovered = itemState.hovered
            /\ other.focused = itemState.focused)
           => CreateSharedToggleStyles(themeName, other.hovered, other.focused,
                                       other.selected, other.disabled, other.hasError) = st

\* C14 witness: selected, in error and disabled, hovered: three base styles,
\* the disabled one last.
C14_Witness ==
  /\ itemState.selected /\ itemState.hasError /\ itemState.disabled /\ itemState.hovered
  /\ Len(CheckboxStyles.baseStyles) = 3
  /\ CheckboxStyles.baseStyles[3] = DisabledStyle(themeName)
  /\ Len(CheckboxStyles.baseHoverStyles) = 2


\* a checkbox Group with a cap m >= 1 mounted with at most m names, whose
\* children are pressed only once its effects have settled, and never
\* rendered again with other props
CapInit ==
  /\ \E initialValues \in SeqsUpTo(Names, MaxLen), max \in 1..MaxCap,
        groupDisabled \in BOOLEAN :
       /\ Len(initialValues) <= max
       /\ Mount("checkbox", initialValues, max, groupDisabled)
  /\ itemDisabled \in ItemDisabledDomain
  /\ nestedValue \in BOOLEAN
  /\ element = MountedElement /\ phase = "mounted"
  /\ item = NoItem
  /\ itemState = DefaultItemState /\ themeName = "light"
  /\ PagerMount(0, 0, NoPager)

CapPress(n) == Settled /\ PressDirect(n)

CapNext ==
  \/ \E n \in Direct : CapPress(n)
  \/ Commit

CapSpec == CapInit /\ [][CapNext]_vars

\* C15: under those conditions the selection never holds more than
\* maxSelections names, rendered or pending.
C15_CapNeverExceeded ==
  /\ Len(values) <= maxSelections
  /\ Len(ApplyQueue(values, valuesQueue)) <= maxSelections

\* C15 witness: a press filled the selection up to the cap of 2, the effect
\* set maxReached and the unselected child "b" is disabled by it alone.
C15_Witness ==
  /\ maxSelections = 2 /\ Len(values) = 2 /\ Settled /\ maxReached
  /\ lastActivated = [name |-> "a", value |-> TRUE]
  /\ ~Includes(values, "b")
  /\ ~disabled /\ ~itemDisabled["b"] /\ ChildDisabled("b")

\* C16: ref.setPage(i) queues i as the selected index and does nothing else:
\* no callback is called and children, props and the rendered index stay; a
\* tab-bar selection of i queues i and calls onPageSelected(i) and
\* onPageSelecting(i) (each when given); the render after either hands the
\* tab bar the index requested last as selectedPage.
C16_SetPageSilent ==
  [][ /\ (Len(pageQueue') = Len(pageQueue) + 1) =>
           /\ pageQueue' = Append(pageQueue, lastPage'.index)
           /\ lastPage'.op \in {"setPage", "onSelect"}
           /\ lastPage'.op = "setPage" => pagerCalls' = <<>>
           /\ lastPage'.op = "onSelect" =>
                \A fn \in {"onPageSelected", "onPageSelecting"} :
                  LET given == IF fn = "onPageSelected"
                               THEN pagerProps.hasOnPageSelected
                               ELSE pagerProps.hasOnPageSelecting
                      made == {k \in 1..Len(pagerCalls') : pagerCalls'[k].fn = fn}
                  IN  /\ Cardinality(made) = (IF given THEN 1 ELSE 0)
                      /\ \A k \in made : pagerCalls'[k].index = lastPage'.index
           /\ UNCHANGED <<numChildren, pagerProps, selectedPage>>
      /\ (pageQueue # <<>> /\ pageQueue' = <<>>) =>
           /\ TabBarSelectedPage' = lastPage.index
           /\ UNCHANGED <<numChildren, pagerProps, lastPage>>
    ]_vars

\* C16 witness: a Pager given both callbacks got setPage with an index other
\* than the rendered one: the index is queued and no callback was called.
C16_Witness ==
  /\ pagerProps.hasOnPageSelected /\ pagerProps.hasOnPageSelecting
  /\ lastPage.op = "setPage"
  /\ lastPage.index # selectedPage
  /\ pageQueue = <<lastPage.index>>
  /\ pagerCalls = <<>>

\* s holds no name twice
C17_NoDup(s) == \A i, j \in 1..Len(s) : s[i] = s[j] => i = j
\* one application of the update rule to s
C17_Once(s, u) == IF u.kind = "value" THEN <<u.name>> ELSE C4_Expected(s, u)

\* C17: a press on a direct child calls the Group's setter twice, as the
\* context setter and then as the injected onChange prop, both times with
\* {name, not selected}, and so queues the same update twice; the render of
\* such a pair leaves the selection one application of the rule gives, in
\* checkbox and in radio mode; no step puts a name twice into a selection
\* that held none twice.
C17_DoubleSetterIdempotent ==
  [][ /\ (Len(valuesQueue') > Len(valuesQueue) /\ lastActivated'.name \in Direct) =>
           LET n == lastActivated'.name
               next == ~Includes(values, n)
               u == IF type = "checkbox"
                      THEN [kind |-> "updater", name |-> n, value |-> next]
                      ELSE [kind |-> "value", name |-> n, value |-> TRUE]
           IN  /\ lastActivated'.value = next
               /\ pressCalls' =
                    << [prop |-> "setFieldValue", to |-> "group", name |-> n, value |-> next],
                       [prop |-> "onChange", to |-> "group", name |-> n, value |-> next] >>
               /\ valuesQueue' = valuesQueue \o <<u, u>>
               /\ values' = values
      /\ (Len(valuesQueue) = 2 /\ valuesQueue[1] = valuesQueue[2] /\ valuesQueue' = <<>>) =>
           values' = C17_Once(values, valuesQueue[1])
      /\ C17_NoDup(values) => C17_NoDup(values')
    ]_vars

\* C17 witness: in a checkbox Group whose selection is "a" the direct child
\* "b" was pressed once: the setter was reached twice with {b, true}, and
\* the pair queued renders as the selection a, b.
C17_Witness ==
  /\ type = "checkbox" /\ values = <<"a">>
  /\ lastActivated = [name |-> "b", value |-> TRUE]
  /\ Len(pressCalls) = 2
  /\ pressCalls[1].to = "group" /\ pressCalls[2].to = "group"
  /\ valuesQueue = << [kind |-> "updater", name |-> "b", value |-> TRUE],
                      [kind |-> "updater", name |-> "b", value |-> TRUE] >>
  /\ ApplyQueue(values, valuesQueue) = <<"a", "b">>

====
